---- MODULE Spec2Model ----
(***************************************************************************)
(* Workspace-to-account group migration of                                 *)
(* databricks.labs.ucx.workspace_access.groups: the matching strategies    *)
(* that build the persisted snapshot of MigratedGroup rows, and the three  *)
(* phases of GroupManager (rename_groups,                                  *)
(* reflect_account_groups_on_workspace, delete_original_workspace_groups)  *)
(* run against a remote directory whose groups they list, patch, assign    *)
(* and delete.                                                             *)
(*                                                                         *)
(* A remote group is a record [id, display_name, meta, external_id]; meta  *)
(* is the SCIM resource type the listing reports for it ("WorkspaceGroup", *)
(* "Group" for an account group assigned to the workspace) or NoMeta when  *)
(* the listing reports none.  The opaque members/roles/entitlements blobs  *)
(* are carried verbatim by the code and take no part in any decision, so   *)
(* they are left out of the records.                                       *)
(***************************************************************************)
EXTENDS Integers, Sequences, FiniteSets, TLC

VARIABLES
    ws_groups,            \* what self._ws.groups.list returns: the groups of the workspace
    acc_groups,           \* the groups at account scope (/api/2.0/account/scim/v2/Groups)
    include_group_names,  \* GroupManager._include_group_names ({} when not given)
    external_id_match,    \* GroupManager._external_id_match
    persisted,            \* whether the inventory table holds a crawled snapshot
    table,                \* the rows of the inventory table, in crawl order
    pc,                   \* "idle", or "running" while a phase's jobs are in Threads.gather
    phase,                \* the phase invoked last: "none", "rename", "reflect", "delete"
    tasks,                \* the jobs scheduled by that invocation, in scheduling order
    results,              \* per job: "pending", "done", or the name of the error it raised
    attempts,             \* per job: the failed attempts the retried wrapper has absorbed
    answers,              \* per job: the remote's answer to its latest call ("" before any)
    raised,               \* whether that invocation ended by raising ManyError
    stage,                \* how far rename -> reflect -> delete have completed without error
    workspace_group_regex,    \* GroupManager._workspace_group_regex (NoRegex when not given)
    workspace_group_replace,  \* GroupManager._workspace_group_replace ("" when not given)
    account_group_regex,      \* GroupManager._account_group_regex (NoRegex when not given)
    generated,            \* the latest direct run of a strategy: what it was given and gave
    evaluated,            \* the latest direct call of _safe_match or _safe_sub
    prompt                \* the latest call of Prompts.question: its arguments and progress

\* The variables of the strategies and of the prompt run on their own
\* (StrategySpec, PromptSpec).
strategy_vars ==
    <<workspace_group_regex, workspace_group_replace, account_group_regex, generated,
      evaluated, prompt>>

vars == <<ws_groups, acc_groups, include_group_names, external_id_match, persisted,
          table, pc, phase, tasks, results, attempts, answers, raised, stage,
          strategy_vars>>

----------------------------------------------------------------------------
(* Bounds of the model and values of the program.                          *)

\* The retry budget of `retried`: the attempts that fit in its timeout.
MaxAttempts == 2

renamed_group_prefix == "ucx-renamed-"

SYSTEM_GROUPS == {"users", "admins", "account users"}

NoMeta == "NoMeta"
NoExternalId == "None"

\* Display names of workspace-local groups; the last one is the temporary
\* name of "a", so a group can hold it before any rename.
WsNames == {"a", "b", renamed_group_prefix \o "a"}
AccNames == {"a", "b"}
ExternalIds == {NoExternalId, "x"}
WsIds == {1, 2}
IncludeChoices == {{}, {"a"}}

\* The system group every workspace has.
AdminsGroup ==
    [id |-> 0, display_name |-> "admins", meta |-> "WorkspaceGroup",
     external_id |-> NoExternalId]

\* The account group of each name: ids are workspace-independent.
AccId(name) == IF name = "a" THEN 11 ELSE 12

\* Regular expressions.  A pattern is ["^"] text ["(.*)"]: the literal text,
\* anchored at the start of the name or not, followed or not by one group
\* that takes the rest of the name.  "invalid" is an expression re.compile
\* rejects, such as "(".
NoRegex == [kind |-> "None", anchored |-> FALSE, text |-> "", group |-> FALSE]

InvalidRegex == [kind |-> "invalid", anchored |-> FALSE, text |-> "(", group |-> FALSE]

\* "a", "^ucx-renamed-(.*)" and "^".
Patterns ==
    {[kind |-> "pattern", anchored |-> FALSE, text |-> "a", group |-> FALSE],
     [kind |-> "pattern", anchored |-> TRUE, text |-> renamed_group_prefix, group |-> TRUE],
     [kind |-> "pattern", anchored |-> TRUE, text |-> "", group |-> FALSE]}

Regexes == {InvalidRegex} \cup Patterns

Replacements == {"b"}

----------------------------------------------------------------------------
(* Listings.                                                               *)

is_group_out_of_scope(group, resource_type) ==
    IF group.display_name \in SYSTEM_GROUPS THEN TRUE
    ELSE IF group.meta = NoMeta THEN FALSE
    ELSE group.meta # resource_type

list_workspace_groups(resource_type) ==
    {g \in ws_groups : ~is_group_out_of_scope(g, resource_type)}

\* A dict keyed by display name.  Where two listed groups share a name the
\* dict keeps one of them; the phases only test keys, and the crawl runs on
\* listings whose names are distinct.
AsDict(groups) ==
    [n \in {g.display_name : g \in groups} |->
        CHOOSE g \in groups : g.display_name = n]

workspace_groups_in_workspace == AsDict(list_workspace_groups("WorkspaceGroup"))

account_groups_in_workspace == AsDict(list_workspace_groups("Group"))

list_account_groups == {g \in acc_groups : g.display_name \notin SYSTEM_GROUPS}

account_groups_in_account == AsDict(list_account_groups)

----------------------------------------------------------------------------
(* Matching strategies.  workspace_groups is the dict of workspace groups  *)
(* as the sequence of its values in insertion (listing) order;             *)
(* account_groups is the dict of account groups keyed by display name.     *)

\* The temporary name with the prefix at the wrong end.
temporary_name_with_suffix(g) == g.display_name \o renamed_group_prefix

temporary_name_of(g) == renamed_group_prefix \o g.display_name

\* get_filtered_groups that ignores the include list.
get_filtered_groups_unfiltered(workspace_groups) == workspace_groups

get_filtered_groups(workspace_groups) ==
    IF include_group_names = {} THEN workspace_groups
    ELSE SelectSeq(workspace_groups, LAMBDA g : g.display_name \in include_group_names)

\* text occurs in group_name at position i.
Occurs(text, group_name, i) ==
    /\ i + Len(text) - 1 <= Len(group_name)
    /\ SubSeq(group_name, i, i + Len(text) - 1) = text

\* re.search(match_re, group_name): where the leftmost match starts, 0 when
\* there is none.
re_search(match_re, group_name) ==
    LET starts == IF match_re.anchored THEN {1} ELSE 1..Len(group_name)
        found == {i \in starts : Occurs(match_re.text, group_name, i)}
    IN IF found = {} THEN 0 ELSE CHOOSE i \in found : \A j \in found : i <= j

\* Where the match that starts at position `at` ends.
match_end(match_re, group_name, at) ==
    IF match_re.group THEN Len(group_name) ELSE at + Len(match_re.text) - 1

\* _safe_match that answers the empty string where there is no match.
safe_match_without_fallback(group_name, match_re) ==
    IF match_re.kind = "invalid" THEN group_name
    ELSE LET at == re_search(match_re, group_name) IN
         IF at = 0 THEN ""
         ELSE IF match_re.group
              THEN SubSeq(group_name, at + Len(match_re.text), Len(group_name))
              ELSE SubSeq(group_name, at, match_end(match_re, group_name, at))

safe_match(group_name, match_re) ==
    IF match_re.kind = "invalid" THEN group_name
    ELSE LET at == re_search(match_re, group_name) IN
         IF at = 0 THEN group_name
         ELSE IF match_re.group
              THEN SubSeq(group_name, at + Len(match_re.text), Len(group_name))
              ELSE SubSeq(group_name, at, match_end(match_re, group_name, at))

\* re.sub(match_re, replace, group_name): every match, left to right,
\* replaced (patterns that match the empty string match at the start only).
RECURSIVE re_sub(_, _, _)
re_sub(match_re, replace, group_name) ==
    LET at == re_search(match_re, group_name) IN
    IF at = 0 THEN group_name
    ELSE LET rest == SubSeq(group_name, match_end(match_re, group_name, at) + 1,
                            Len(group_name))
         IN SubSeq(group_name, 1, at - 1) \o replace
                \o (IF match_re.anchored \/ rest = "" THEN rest
                    ELSE re_sub(match_re, replace, rest))

safe_sub(group_name, match_re, replace) ==
    IF match_re.kind = "invalid" THEN group_name
    ELSE re_sub(match_re, replace, group_name)

MigratedGroup(g, name_in_account, account_group) ==
    [id_in_workspace |-> g.id,
     name_in_workspace |-> g.display_name,
     name_in_account |-> name_in_account,
     temporary_name |-> temporary_name_of(g),
     external_id |-> account_group.external_id]

\* MatchingNamesStrategy without the lookup of the account group.
MatchingNamesStrategy_without_lookup(workspace_groups, account_groups) ==
    LET filtered == get_filtered_groups(workspace_groups) IN
    [k \in 1..Len(filtered) |->
        MigratedGroup(filtered[k], filtered[k].display_name,
                      [external_id |-> NoExternalId])]

MatchingNamesStrategy(workspace_groups, account_groups) ==
    LET filtered == get_filtered_groups(workspace_groups)
        gen[k \in 0..Len(filtered)] ==
            IF k = 0 THEN <<>>
            ELSE LET g == filtered[k] IN
                 IF g.display_name \notin DOMAIN account_groups THEN gen[k - 1]
                 ELSE Append(gen[k - 1],
                             MigratedGroup(g, g.display_name, account_groups[g.display_name]))
    IN gen[Len(filtered)]

\* Python's order of the display names the model uses.
SortedNames == <<"a", "b", renamed_group_prefix \o "a">>

NameRank(n) == CHOOSE i \in 1..Len(SortedNames) : SortedNames[i] = n

\* {group.external_id: group for group in account_groups.values()}: the values
\* come sorted by display name (_list_account_groups), the last one wins.
account_groups_by_id(account_groups) ==
    LET values == {account_groups[n] : n \in DOMAIN account_groups} IN
    [e \in {g.external_id : g \in values} |->
        CHOOSE g \in values :
            /\ g.external_id = e
            /\ \A h \in values :
                 h.external_id = e => NameRank(h.display_name) <= NameRank(g.display_name)]

MatchByExternalIdStrategy(workspace_groups, account_groups) ==
    LET filtered == get_filtered_groups(workspace_groups)
        by_id == account_groups_by_id(account_groups)
        gen[k \in 0..Len(filtered)] ==
            IF k = 0 THEN <<>>
            ELSE LET g == filtered[k] IN
                 IF g.external_id \notin DOMAIN by_id THEN gen[k - 1]
                 ELSE Append(gen[k - 1],
                             MigratedGroup(g, by_id[g.external_id].display_name,
                                           by_id[g.external_id]))
    IN gen[Len(filtered)]

\* RegexSubStrategy that skips a group whose derived name is no account group.
RegexSubStrategy_skipping(workspace_groups, account_groups) ==
    LET filtered == get_filtered_groups(workspace_groups)
        name_in_account(g) ==
            safe_sub(g.display_name, workspace_group_regex, workspace_group_replace)
        found == SelectSeq(filtered, LAMBDA g : name_in_account(g) \in DOMAIN account_groups)
    IN [strategy |-> "RegexSubStrategy",
        rows |-> [k \in 1..Len(found) |->
                    MigratedGroup(found[k], name_in_account(found[k]),
                                  account_groups[name_in_account(found[k])])],
        error |-> "None"]

\* The lookup self.account_groups_in_account[name_in_account] raises
\* KeyError at the first group whose derived name is no account group; the
\* rows are those yielded before it.
RegexSubStrategy(workspace_groups, account_groups) ==
    LET filtered == get_filtered_groups(workspace_groups)
        name_in_account(g) ==
            safe_sub(g.display_name, workspace_group_regex, workspace_group_replace)
        missing == {k \in 1..Len(filtered) :
                       name_in_account(filtered[k]) \notin DOMAIN account_groups}
        yielded == IF missing = {} THEN Len(filtered)
                   ELSE (CHOOSE k \in missing : \A j \in missing : k <= j) - 1
    IN [strategy |-> "RegexSubStrategy",
        rows |-> [k \in 1..yielded |->
                    MigratedGroup(filtered[k], name_in_account(filtered[k]),
                                  account_groups[name_in_account(filtered[k])])],
        error |-> IF missing = {} THEN "None" ELSE "KeyError"]

\* RegexMatchStrategy keeping, for a key, the workspace group written first.
RegexMatchStrategy_first_wins(workspace_groups, account_groups) ==
    LET filtered == get_filtered_groups(workspace_groups)
        ws_key(k) == safe_match(filtered[k].display_name, workspace_group_regex)
        acc_key(g) == safe_match(g.display_name, account_group_regex)
        first == SelectSeq([k \in 1..Len(filtered) |-> k],
                           LAMBDA k : \A j \in 1..(k - 1) : ws_key(j) # ws_key(k))
        workspace_groups_by_match(key) ==
            filtered[CHOOSE k \in 1..Len(filtered) :
                        /\ ws_key(k) = key
                        /\ \A j \in 1..Len(filtered) : ws_key(j) = key => k <= j]
        values == {account_groups[n] : n \in DOMAIN account_groups}
        account_groups_by_match ==
            [key \in {acc_key(g) : g \in values} |->
                CHOOSE g \in values :
                    /\ acc_key(g) = key
                    /\ \A h \in values :
                         acc_key(h) = key => NameRank(h.display_name) <= NameRank(g.display_name)]
        gen[k \in 0..Len(first)] ==
            IF k = 0 THEN <<>>
            ELSE LET group_match == ws_key(first[k])
                     ws_group == workspace_groups_by_match(group_match)
                 IN IF group_match \notin DOMAIN account_groups_by_match THEN gen[k - 1]
                    ELSE Append(gen[k - 1],
                                MigratedGroup(ws_group,
                                              account_groups_by_match[group_match].display_name,
                                              account_groups_by_match[group_match]))
    IN gen[Len(first)]

\* RegexMatchStrategy yielding for every candidate, not for every key.
RegexMatchStrategy_per_group(workspace_groups, account_groups) ==
    LET filtered == get_filtered_groups(workspace_groups)
        ws_key(k) == safe_match(filtered[k].display_name, workspace_group_regex)
        acc_key(g) == safe_match(g.display_name, account_group_regex)
        first == [k \in 1..Len(filtered) |-> k]
        workspace_groups_by_match(key) ==
            filtered[CHOOSE k \in 1..Len(filtered) :
                        /\ ws_key(k) = key
                        /\ \A j \in 1..Len(filtered) : ws_key(j) = key => j <= k]
        values == {account_groups[n] : n \in DOMAIN account_groups}
        account_groups_by_match ==
            [key \in {acc_key(g) : g \in values} |->
                CHOOSE g \in values :
                    /\ acc_key(g) = key
                    /\ \A h \in values :
                         acc_key(h) = key => NameRank(h.display_name) <= NameRank(g.display_name)]
        gen[k \in 0..Len(first)] ==
            IF k = 0 THEN <<>>
            ELSE LET group_match == ws_key(first[k])
                     ws_group == workspace_groups_by_match(group_match)
                 IN IF group_match \notin DOMAIN account_groups_by_match THEN gen[k - 1]
                    ELSE Append(gen[k - 1],
                                MigratedGroup(ws_group,
                                              account_groups_by_match[group_match].display_name,
                                              account_groups_by_match[group_match]))
    IN gen[Len(first)]

\* {self._safe_match(name, regex): group for name, group in groups.items()}:
\* a key keeps the place of its first insertion and the value written last.
\* The account groups come sorted by display name.
RegexMatchStrategy(workspace_groups, account_groups) ==
    LET filtered == get_filtered_groups(workspace_groups)
        ws_key(k) == safe_match(filtered[k].display_name, workspace_group_regex)
        acc_key(g) == safe_match(g.display_name, account_group_regex)
        first == SelectSeq([k \in 1..Len(filtered) |-> k],
                           LAMBDA k : \A j \in 1..(k - 1) : ws_key(j) # ws_key(k))
        workspace_groups_by_match(key) ==
            filtered[CHOOSE k \in 1..Len(filtered) :
                        /\ ws_key(k) = key
                        /\ \A j \in 1..Len(filtered) : ws_key(j) = key => j <= k]
        values == {account_groups[n] : n \in DOMAIN account_groups}
        account_groups_by_match ==
            [key \in {acc_key(g) : g \in values} |->
                CHOOSE g \in values :
                    /\ acc_key(g) = key
                    /\ \A h \in values :
                         acc_key(h) = key => NameRank(h.display_name) <= NameRank(g.display_name)]
        gen[k \in 0..Len(first)] ==
            IF k = 0 THEN <<>>
            ELSE LET group_match == ws_key(first[k])
                     ws_group == workspace_groups_by_match(group_match)
                 IN IF group_match \notin DOMAIN account_groups_by_match THEN gen[k - 1]
                    ELSE Append(gen[k - 1],
                                MigratedGroup(ws_group,
                                              account_groups_by_match[group_match].display_name,
                                              account_groups_by_match[group_match]))
    IN gen[Len(first)]

\* len(MigrationState(groups)): the size of its _name_to_group.
MigrationState_len(groups) ==
    Cardinality({groups[k].name_in_workspace : k \in 1..Len(groups)})

\* A strategy that ran to its end.
Generated(strategy, rows) == [strategy |-> strategy, rows |-> rows, error |-> "None"]

\* _get_strategy(...).generate_migrated_groups(): the strategy chosen, the
\* rows it yields and the error it raises, if any.
get_strategy(workspace_groups, account_groups) ==
    IF workspace_group_regex # NoRegex /\ workspace_group_replace # ""
    THEN RegexSubStrategy(workspace_groups, account_groups)
    ELSE IF workspace_group_regex # NoRegex /\ account_group_regex # NoRegex
    THEN Generated("RegexMatchStrategy",
                   RegexMatchStrategy(workspace_groups, account_groups))
    ELSE IF external_id_match
    THEN Generated("MatchByExternalIdStrategy",
                   MatchByExternalIdStrategy(workspace_groups, account_groups))
    ELSE Generated("MatchingNamesStrategy",
                   MatchingNamesStrategy(workspace_groups, account_groups))

\* The orders in which the remote may list the groups of a dict.
ListingOrders(dict) ==
    {order \in [1..Cardinality(DOMAIN dict) -> {dict[n] : n \in DOMAIN dict}] :
        \A i, j \in 1..Cardinality(DOMAIN dict) : order[i] = order[j] => i = j}

crawler(order) == get_strategy(order, account_groups_in_account)

\* A snapshot that crawls on every call.
snapshot_always_crawling(order) == crawler(order).rows

\* CrawlerBase._snapshot(fetcher, loader): the persisted rows once a crawl
\* was persisted, else the crawl.  The phases run with no regular expression
\* configured, where no strategy raises.
snapshot(order) == IF persisted THEN table ELSE crawler(order).rows

----------------------------------------------------------------------------
(* The jobs each phase schedules, from the listings it took.               *)

\* rename_tasks without the "already in workspace" skip.
rename_tasks_skipping_account_check(groups_to_migrate, in_account_ws, in_workspace) ==
    LET gen[k \in 0..Len(groups_to_migrate)] ==
            IF k = 0 THEN <<>>
            ELSE LET mg == groups_to_migrate[k] IN
                 IF mg.temporary_name \in DOMAIN in_workspace THEN gen[k - 1]
                 ELSE Append(gen[k - 1],
                             [op |-> "rename", group_id |-> mg.id_in_workspace,
                              name |-> mg.temporary_name])
    IN gen[Len(groups_to_migrate)]

\* rename_tasks without the "already renamed" skip.
rename_tasks_skipping_temporary_check(groups_to_migrate, in_account_ws, in_workspace) ==
    LET gen[k \in 0..Len(groups_to_migrate)] ==
            IF k = 0 THEN <<>>
            ELSE LET mg == groups_to_migrate[k] IN
                 IF mg.name_in_account \in DOMAIN in_account_ws THEN gen[k - 1]
                 ELSE Append(gen[k - 1],
                             [op |-> "rename", group_id |-> mg.id_in_workspace,
                              name |-> mg.temporary_name])
    IN gen[Len(groups_to_migrate)]

rename_tasks(groups_to_migrate, in_account_ws, in_workspace) ==
    LET gen[k \in 0..Len(groups_to_migrate)] ==
            IF k = 0 THEN <<>>
            ELSE LET mg == groups_to_migrate[k] IN
                 IF mg.name_in_account \in DOMAIN in_account_ws THEN gen[k - 1]
                 ELSE IF mg.temporary_name \in DOMAIN in_workspace THEN gen[k - 1]
                 ELSE Append(gen[k - 1],
                             [op |-> "rename", group_id |-> mg.id_in_workspace,
                              name |-> mg.temporary_name])
    IN gen[Len(groups_to_migrate)]

\* reflect_tasks without the "already in workspace" skip.
reflect_tasks_skipping_workspace_check(groups_to_migrate, in_account, in_account_ws) ==
    LET gen[k \in 0..Len(groups_to_migrate)] ==
            IF k = 0 THEN <<>>
            ELSE LET mg == groups_to_migrate[k] IN
                 IF mg.name_in_account \notin DOMAIN in_account THEN gen[k - 1]
                 ELSE Append(gen[k - 1],
                             [op |-> "reflect",
                              group_id |-> in_account[mg.name_in_account].id,
                              name |-> mg.name_in_account])
    IN gen[Len(groups_to_migrate)]

reflect_tasks(groups_to_migrate, in_account, in_account_ws) ==
    LET gen[k \in 0..Len(groups_to_migrate)] ==
            IF k = 0 THEN <<>>
            ELSE LET mg == groups_to_migrate[k] IN
                 IF mg.name_in_account \in DOMAIN in_account_ws THEN gen[k - 1]
                 ELSE IF mg.name_in_account \notin DOMAIN in_account THEN gen[k - 1]
                 ELSE Append(gen[k - 1],
                             [op |-> "reflect",
                              group_id |-> in_account[mg.name_in_account].id,
                              name |-> mg.name_in_account])
    IN gen[Len(groups_to_migrate)]

\* delete_tasks without the "not reflected in workspace" skip.
delete_tasks_skipping_reflect_check(rows, in_workspace, in_account_ws) ==
    LET gen[k \in 0..Len(rows)] ==
            IF k = 0 THEN <<>>
            ELSE LET mg == rows[k] IN
                 IF mg.temporary_name \notin DOMAIN in_workspace THEN gen[k - 1]
                 ELSE Append(gen[k - 1],
                             [op |-> "delete", group_id |-> mg.id_in_workspace,
                              name |-> mg.temporary_name])
    IN gen[Len(rows)]

\* delete_tasks over the rows the include list names.
delete_tasks_of_included(rows, in_workspace, in_account_ws) ==
    LET gen[k \in 0..Len(rows)] ==
            IF k = 0 THEN <<>>
            ELSE LET mg == rows[k] IN
                 IF /\ include_group_names # {}
                    /\ mg.name_in_workspace \notin include_group_names THEN gen[k - 1]
                 ELSE IF mg.temporary_name \notin DOMAIN in_workspace THEN gen[k - 1]
                 ELSE IF mg.name_in_account \notin DOMAIN in_account_ws THEN gen[k - 1]
                 ELSE Append(gen[k - 1],
                             [op |-> "delete", group_id |-> mg.id_in_workspace,
                              name |-> mg.temporary_name])
    IN gen[Len(rows)]

delete_tasks(rows, in_workspace, in_account_ws) ==
    LET gen[k \in 0..Len(rows)] ==
            IF k = 0 THEN <<>>
            ELSE LET mg == rows[k] IN
                 IF mg.temporary_name \notin DOMAIN in_workspace THEN gen[k - 1]
                 ELSE IF mg.name_in_account \notin DOMAIN in_account_ws THEN gen[k - 1]
                 ELSE Append(gen[k - 1],
                             [op |-> "delete", group_id |-> mg.id_in_workspace,
                              name |-> mg.temporary_name])
    IN gen[Len(rows)]

----------------------------------------------------------------------------
(* Initial states: a workspace, an account and a configuration, nothing    *)
(* crawled yet.                                                            *)

WsOptions ==
    [display_name : WsNames, meta : {"WorkspaceGroup", NoMeta}, external_id : ExternalIds]

\* The workspace-local groups: ids 1..k, display names distinct (the remote
\* keeps them so); ids are labels, so they are handed out in name order.
LocalGroupSets ==
    UNION {
        {{[id |-> i, display_name |-> f[i].display_name, meta |-> f[i].meta,
           external_id |-> f[i].external_id] : i \in 1..k} :
            f \in {h \in [1..k -> WsOptions] :
                     \A i, j \in 1..k :
                        i < j => NameRank(h[i].display_name) < NameRank(h[j].display_name)}}
        : k \in 0..Cardinality(WsIds)}

AccountGroupSets ==
    UNION {
        {{[id |-> AccId(n), display_name |-> n, external_id |-> f[n]] : n \in names} :
            f \in [names -> ExternalIds]}
        : names \in SUBSET AccNames}

\* An account group as the workspace lists it once it is assigned.
Reflected(g) ==
    [id |-> g.id, display_name |-> g.display_name, meta |-> "Group",
     external_id |-> g.external_id]

NotGenerated ==
    [strategy |-> "None", workspace_groups |-> <<>>, rows |-> <<>>, error |-> "None"]

NotEvaluated ==
    [fn |-> "None", group_name |-> "", match_re |-> NoRegex, replace |-> "", result |-> ""]

\* The default of a question asked without one (None).
NoDefault == "None"

\* No validate function, no valid_regex (None).
NoValidate == "None"
NoValidRegex == "None"

NotAsked ==
    [validate |-> NoValidate, default |-> NoDefault, match_regex |-> NoValidRegex,
     max_attempts |-> 0, attempt |-> 0, entered |-> <<>>, outcome |-> "none",
     result |-> ""]

Init ==
    /\ external_id_match \in BOOLEAN
    /\ include_group_names \in IncludeChoices
    /\ acc_groups \in AccountGroupSets
    /\ \E local \in LocalGroupSets, assigned \in SUBSET acc_groups :
          \* external ids are read by MatchByExternalIdStrategy alone
          /\ ~external_id_match =>
                \A g \in local \cup acc_groups : g.external_id = NoExternalId
          /\ ws_groups = {AdminsGroup} \cup local \cup {Reflected(g) : g \in assigned}
    /\ persisted = FALSE
    /\ table = <<>>
    /\ pc = "idle"
    /\ phase = "none"
    /\ tasks = <<>>
    /\ results = <<>>
    /\ attempts = <<>>
    /\ answers = <<>>
    /\ raised = FALSE
    /\ stage = 0
    /\ workspace_group_regex = NoRegex
    /\ workspace_group_replace = ""
    /\ account_group_regex = NoRegex
    /\ generated = NotGenerated
    /\ evaluated = NotEvaluated
    /\ prompt = NotAsked

----------------------------------------------------------------------------
(* A phase invocation up to Threads.gather: the listings, the snapshot     *)
(* (crawled and persisted on first use) and the scheduled jobs.            *)

Schedule(name, rows, jobs) ==
    /\ pc' = "running"
    /\ phase' = name
    /\ persisted' = TRUE
    /\ table' = rows
    /\ tasks' = jobs
    /\ results' = [i \in 1..Len(jobs) |-> "pending"]
    /\ attempts' = [i \in 1..Len(jobs) |-> 0]
    /\ answers' = [i \in 1..Len(jobs) |-> ""]
    /\ raised' = FALSE
    /\ UNCHANGED <<ws_groups, acc_groups, include_group_names, external_id_match, stage,
                   strategy_vars>>

rename_groups ==
    /\ pc = "idle"
    /\ \E order \in ListingOrders(workspace_groups_in_workspace) :
          Schedule("rename", snapshot(order),
                   rename_tasks(snapshot(order), account_groups_in_workspace,
                                workspace_groups_in_workspace))

reflect_account_groups_on_workspace ==
    /\ pc = "idle"
    /\ \E order \in ListingOrders(workspace_groups_in_workspace) :
          Schedule("reflect", snapshot(order),
                   reflect_tasks(snapshot(order), account_groups_in_account,
                                 account_groups_in_workspace))

delete_original_workspace_groups ==
    /\ pc = "idle"
    /\ \E order \in ListingOrders(workspace_groups_in_workspace) :
          Schedule("delete", snapshot(order),
                   delete_tasks(snapshot(order), workspace_groups_in_workspace,
                                account_groups_in_workspace))

----------------------------------------------------------------------------
(* The remote directory's answers.  "InternalError" stands for the errors  *)
(* the retried wrapper is told to retry (InternalError, ResourceConflict,  *)
(* DeadlineExceeded), "PermissionDenied" for any error no wrapper and no   *)
(* except clause handles.                                                  *)

Present(id) == \E g \in ws_groups : g.id = id

GroupById(id) == CHOOSE g \in ws_groups : g.id = id

AtAccount(id) == \E g \in acc_groups : g.id = id

GroupsResponses(id) ==
    IF Present(id) THEN {"OK", "InternalError", "PermissionDenied"}
    ELSE {"NotFound", "InternalError"}

AssignResponses(id) ==
    IF ~AtAccount(id) THEN {"NotFound", "InternalError"}
    ELSE IF Present(id) THEN {"OK", "BadRequest", "InternalError", "PermissionDenied"}
    ELSE {"OK", "InternalError", "PermissionDenied"}

Patched(id, new_group_name) ==
    (ws_groups \ {GroupById(id)})
        \cup {[GroupById(id) EXCEPT !.display_name = new_group_name]}

Deleted(id) == ws_groups \ {GroupById(id)}

Assigned(id) == ws_groups \cup {Reflected(CHOOSE g \in acc_groups : g.id = id)}

----------------------------------------------------------------------------
(* The jobs, as Threads.gather runs them: in any order, each to its end.   *)

Pending(i) == pc = "running" /\ i \in 1..Len(tasks) /\ results[i] = "pending"

Settle(i, result) ==
    /\ results' = [results EXCEPT ![i] = result]
    /\ UNCHANGED attempts

\* retried(on=[InternalError, ResourceConflict, DeadlineExceeded]): another
\* attempt while the budget lasts, TimeoutError after it.
Retry(i) ==
    IF attempts[i] + 1 < MaxAttempts
    THEN /\ attempts' = [attempts EXCEPT ![i] = attempts[i] + 1]
         /\ UNCHANGED results
    ELSE /\ attempts' = [attempts EXCEPT ![i] = attempts[i] + 1]
         /\ results' = [results EXCEPT ![i] = "TimeoutError"]

JobFrame ==
    UNCHANGED <<acc_groups, include_group_names, external_id_match, persisted, table,
                pc, phase, tasks, raised, stage, strategy_vars>>

\* _rename_group: no wrapper, no except clause.
rename_group(i) ==
    /\ Pending(i)
    /\ tasks[i].op = "rename"
    /\ \E answer \in GroupsResponses(tasks[i].group_id) :
          /\ answers' = [answers EXCEPT ![i] = answer]
          /\ IF answer = "OK"
             THEN /\ ws_groups' = Patched(tasks[i].group_id, tasks[i].name)
                  /\ Settle(i, "done")
             ELSE /\ UNCHANGED ws_groups
                  /\ Settle(i, answer)
    /\ JobFrame

\* _reflect_account_group_to_workspace without its except clause.
reflect_without_except(i) ==
    /\ Pending(i)
    /\ tasks[i].op = "reflect"
    /\ \E answer \in AssignResponses(tasks[i].group_id) :
          /\ answers' = [answers EXCEPT ![i] = answer]
          /\ CASE answer = "OK" ->
                 /\ ws_groups' = Assigned(tasks[i].group_id)
                 /\ Settle(i, "done")
            [] answer = "InternalError" ->
                 /\ UNCHANGED ws_groups
                 /\ Retry(i)
            [] OTHER ->
                 /\ UNCHANGED ws_groups
                 /\ Settle(i, answer)
    /\ JobFrame

reflect_account_group_to_workspace(i) ==
    /\ Pending(i)
    /\ tasks[i].op = "reflect"
    /\ \E answer \in AssignResponses(tasks[i].group_id) :
          /\ answers' = [answers EXCEPT ![i] = answer]
          /\ CASE answer = "OK" ->
                 /\ ws_groups' = Assigned(tasks[i].group_id)
                 /\ Settle(i, "done")
            [] answer = "BadRequest" ->
                 /\ UNCHANGED ws_groups
                 /\ Settle(i, "done")
            [] answer = "InternalError" ->
                 /\ UNCHANGED ws_groups
                 /\ Retry(i)
            [] OTHER ->
                 /\ UNCHANGED ws_groups
                 /\ Settle(i, answer)
    /\ JobFrame

\* _delete_workspace_group without its except clause.
delete_without_except(i) ==
    /\ Pending(i)
    /\ tasks[i].op = "delete"
    /\ \E answer \in GroupsResponses(tasks[i].group_id) :
          /\ answers' = [answers EXCEPT ![i] = answer]
          /\ CASE answer = "OK" ->
                 /\ ws_groups' = Deleted(tasks[i].group_id)
                 /\ Settle(i, "done")
            [] answer = "InternalError" ->
                 /\ UNCHANGED ws_groups
                 /\ Retry(i)
            [] OTHER ->
                 /\ UNCHANGED ws_groups
                 /\ Settle(i, answer)
    /\ JobFrame

delete_workspace_group(i) ==
    /\ Pending(i)
    /\ tasks[i].op = "delete"
    /\ \E answer \in GroupsResponses(tasks[i].group_id) :
          /\ answers' = [answers EXCEPT ![i] = answer]
          /\ CASE answer = "OK" ->
                 /\ ws_groups' = Deleted(tasks[i].group_id)
                 /\ Settle(i, "done")
            [] answer = "NotFound" ->
                 /\ UNCHANGED ws_groups
                 /\ Settle(i, "done")
            [] answer = "InternalError" ->
                 /\ UNCHANGED ws_groups
                 /\ Retry(i)
            [] OTHER ->
                 /\ UNCHANGED ws_groups
                 /\ Settle(i, answer)
    /\ JobFrame

\* The errors Threads.gather hands back: the jobs that raised.
errors == {i \in 1..Len(tasks) : results[i] \notin {"pending", "done"}}

\* The test on the errors, off by one.
raises_on_second_error == Cardinality(errors) > 1

\* if len(errors) > 0: raise ManyError(errors)
raises_many_error == Cardinality(errors) > 0

\* Threads.gather returns once every job it was given has finished.
gather_finished == \A i \in 1..Len(tasks) : results[i] # "pending"

\* _, errors = Threads.gather(...); the phase then returns or raises.
gather_returns ==
    /\ pc = "running"
    /\ gather_finished
    /\ pc' = "idle"
    /\ raised' = raises_many_error
    /\ stage' = IF /\ ~raises_many_error
                   /\ \/ phase = "rename" /\ stage = 0
                      \/ phase = "reflect" /\ stage = 1
                      \/ phase = "delete" /\ stage = 2
                THEN stage + 1 ELSE stage
    /\ UNCHANGED <<ws_groups, acc_groups, include_group_names, external_id_match,
                   persisted, table, phase, tasks, results, attempts, answers,
                   strategy_vars>>

----------------------------------------------------------------------------
(* Between invocations: the manager is built again with another include    *)
(* list, and an account group that is not assigned to the workspace is     *)
(* removed from the account.                                               *)

configure ==
    /\ pc = "idle"
    /\ include_group_names' \in IncludeChoices \ {include_group_names}
    /\ UNCHANGED <<ws_groups, acc_groups, external_id_match, persisted, table, pc,
                   phase, tasks, results, attempts, answers, raised, stage,
                   strategy_vars>>

account_group_removed ==
    /\ pc = "idle"
    /\ \E g \in acc_groups :
          /\ ~Present(g.id)
          /\ acc_groups' = acc_groups \ {g}
    /\ UNCHANGED <<ws_groups, include_group_names, external_id_match, persisted, table,
                   pc, phase, tasks, results, attempts, answers, raised, stage,
                   strategy_vars>>

Next ==
    \/ rename_groups
    \/ reflect_account_groups_on_workspace
    \/ delete_original_workspace_groups
    \/ \E i \in 1..Len(tasks) : rename_group(i)
    \/ \E i \in 1..Len(tasks) : reflect_account_group_to_workspace(i)
    \/ \E i \in 1..Len(tasks) : delete_workspace_group(i)
    \/ gather_returns
    \/ configure
    \/ account_group_removed

Spec == Init /\ [][Next]_vars

----------------------------------------------------------------------------
(* The strategies and the regular-expression helpers run on their own: a   *)
(* workspace, an account and a configuration are drawn, then the crawl and *)
(* the helpers are applied to them.                                        *)

\* The configurations: external-id matching is drawn with no regular
\* expression at all or with all of them.
StrategyConfigs ==
    {c \in [external_id_match : BOOLEAN,
            workspace_group_regex : {NoRegex} \cup Regexes,
            workspace_group_replace : {""} \cup Replacements,
            account_group_regex : {NoRegex} \cup Regexes] :
        c.external_id_match =>
            \/ /\ c.workspace_group_regex = NoRegex
               /\ c.workspace_group_replace = ""
               /\ c.account_group_regex = NoRegex
            \/ /\ c.workspace_group_regex # NoRegex
               /\ c.workspace_group_replace # ""
               /\ c.account_group_regex # NoRegex}

StrategyInit ==
    /\ \E c \in StrategyConfigs :
          /\ external_id_match = c.external_id_match
          /\ workspace_group_regex = c.workspace_group_regex
          /\ workspace_group_replace = c.workspace_group_replace
          /\ account_group_regex = c.account_group_regex
    /\ include_group_names \in IncludeChoices
    /\ acc_groups \in AccountGroupSets
    /\ \E local \in LocalGroupSets, assigned \in SUBSET acc_groups :
          \* external ids are read by MatchByExternalIdStrategy alone
          /\ ~(external_id_match /\ workspace_group_regex = NoRegex) =>
                \A g \in local \cup acc_groups : g.external_id = NoExternalId
          /\ ws_groups = {AdminsGroup} \cup local \cup {Reflected(g) : g \in assigned}
    /\ persisted = FALSE
    /\ table = <<>>
    /\ pc = "idle"
    /\ phase = "none"
    /\ tasks = <<>>
    /\ results = <<>>
    /\ attempts = <<>>
    /\ answers = <<>>
    /\ raised = FALSE
    /\ stage = 0
    /\ generated = NotGenerated
    /\ evaluated = NotEvaluated
    /\ prompt = NotAsked

StrategyFrame ==
    UNCHANGED <<ws_groups, acc_groups, include_group_names, external_id_match, persisted,
                table, pc, phase, tasks, results, attempts, answers, raised, stage,
                workspace_group_regex, workspace_group_replace, account_group_regex,
                prompt>>

\* _crawler: the strategy _get_strategy chooses, run on the two listings.
generate_migrated_groups ==
    /\ \E order \in ListingOrders(workspace_groups_in_workspace) :
          generated' = [strategy |-> crawler(order).strategy,
                        workspace_groups |-> order,
                        rows |-> crawler(order).rows,
                        error |-> crawler(order).error]
    /\ UNCHANGED evaluated
    /\ StrategyFrame

\* The names and expressions RegexMatchStrategy hands to _safe_match.
SafeMatchCalls ==
    ({n \in DOMAIN workspace_groups_in_workspace : workspace_group_regex # NoRegex}
        \X {workspace_group_regex})
    \cup ({n \in DOMAIN account_groups_in_account : account_group_regex # NoRegex}
            \X {account_group_regex})

evaluate_safe_match ==
    /\ \E call \in SafeMatchCalls :
          evaluated' = [fn |-> "_safe_match", group_name |-> call[1], match_re |-> call[2],
                        replace |-> "", result |-> safe_match(call[1], call[2])]
    /\ UNCHANGED generated
    /\ StrategyFrame

\* RegexSubStrategy hands _safe_sub the names of the workspace groups.
evaluate_safe_sub ==
    /\ workspace_group_regex # NoRegex
    /\ workspace_group_replace # ""
    /\ \E group_name \in DOMAIN workspace_groups_in_workspace :
          evaluated' = [fn |-> "_safe_sub", group_name |-> group_name,
                        match_re |-> workspace_group_regex,
                        replace |-> workspace_group_replace,
                        result |-> safe_sub(group_name, workspace_group_regex,
                                            workspace_group_replace)]
    /\ UNCHANGED generated
    /\ StrategyFrame

StrategyNext ==
    \/ generate_migrated_groups
    \/ evaluate_safe_match
    \/ evaluate_safe_sub

StrategySpec == StrategyInit /\ [][StrategyNext]_vars

----------------------------------------------------------------------------
(* One migration on its own: rename, then reflect, then delete, once each, *)
(* every call of every job answered OK, nobody else touching the remote.   *)

MigrationNext ==
    \/ phase = "none" /\ rename_groups
    \/ phase = "rename" /\ reflect_account_groups_on_workspace
    \/ phase = "reflect" /\ delete_original_workspace_groups
    \/ \E i \in 1..Len(tasks) : rename_group(i) /\ answers'[i] = "OK"
    \/ \E i \in 1..Len(tasks) : reflect_account_group_to_workspace(i) /\ answers'[i] = "OK"
    \/ \E i \in 1..Len(tasks) : delete_workspace_group(i) /\ answers'[i] = "OK"
    \/ gather_returns

MigrationSpec == Init /\ [][MigrationNext]_vars

----------------------------------------------------------------------------
(* Prompts.question on its own: one call after another, each reading the   *)
(* answers the user types until one is returned or the attempts run out.   *)
(* ConfigureGroups asks through it: _ask_for_group is question with        *)
(* validate=_is_valid_group_str, _ask_for_regex is question with           *)
(* validate=_validate_regex.                                               *)

\* The largest max_attempts a call is given.
MaxPromptAttempts == 2

\* What the user may type at one input(prompt).
Answers == {"", "^", "(", "corp-", "a b", "7", "no"}

Defaults == {NoDefault, "db-temp-"}

Validators == {NoValidate, "_is_valid_group_str", "_validate_regex"}

NumberRegex == "^\\d+$"
YesNoRegex == "[Yy][Ee][Ss]|[Nn][Oo]"

Chars(s) == {SubSeq(s, i, i) : i \in 1..Len(s)}

\* [\s#,+ \\<>;]
ForbiddenChars == {" ", "\t", "\n", "\r", "#", ",", "+", "\\", "<", ">", ";"}

Digits == {"0", "1", "2", "3", "4", "5", "6", "7", "8", "9"}

\* ConfigureGroups._is_valid_group_str: non-empty and re.search finds none of
\* the forbidden characters.
is_valid_group_str(group_str) ==
    group_str # "" /\ Chars(group_str) \cap ForbiddenChars = {}

\* How many of the first i characters of s are c.
CountUpTo(s, c, i) == Cardinality({j \in 1..i : SubSeq(s, j, j) = c})

\* re.compile on an expression of Answers: re.error for a parenthesis that is
\* never closed or never opened, the one way these expressions can fail.
re_compiles(regex_input) ==
    /\ \A i \in 1..Len(regex_input) :
          CountUpTo(regex_input, ")", i) <= CountUpTo(regex_input, "(", i)
    /\ CountUpTo(regex_input, ")", Len(regex_input))
          = CountUpTo(regex_input, "(", Len(regex_input))

\* ConfigureGroups._validate_regex: True when re.compile accepts the input,
\* False on re.error.
validate_regex(regex_input) == re_compiles(regex_input)

\* validate(res) for the validate function the call was given.
validate(fn, res) ==
    CASE fn = "_is_valid_group_str" -> is_valid_group_str(res)
      [] fn = "_validate_regex" -> validate_regex(res)

\* match_regex.match(res): a match at the start of res.
regex_match(valid_regex, res) ==
    CASE valid_regex = NumberRegex -> res # "" /\ Chars(res) \subseteq Digits
      [] valid_regex = YesNoRegex ->
            \/ /\ Len(res) >= 3
               /\ SubSeq(res, 1, 1) \in {"Y", "y"}
               /\ SubSeq(res, 2, 2) \in {"E", "e"}
               /\ SubSeq(res, 3, 3) \in {"S", "s"}
            \/ /\ Len(res) >= 2
               /\ SubSeq(res, 1, 1) \in {"N", "n"}
               /\ SubSeq(res, 2, 2) \in {"O", "o"}

\* bool(default): None and the empty string are false.
Truthy(default) == default \notin {NoDefault, ""}

\* while attempt < max_attempts, and the ValueError after the loop.
question_loop(q) ==
    IF q.attempt < q.max_attempts
    THEN [q EXCEPT !.outcome = "asking"]
    ELSE [q EXCEPT !.outcome = "raised"]

question_return(q, res) == [q EXCEPT !.outcome = "returned", !.result = res]

\* The loop body with the validate check left out.
question_attempt_without_validate(p, res) ==
    LET q == [p EXCEPT !.attempt = p.attempt + 1, !.entered = Append(p.entered, res)]
    IN  IF res # "" /\ q.match_regex # NoValidRegex
        THEN IF ~regex_match(q.match_regex, res)
             THEN question_loop(q)
             ELSE question_return(q, res)
        ELSE IF res = "" /\ Truthy(q.default)
        THEN question_return(q, q.default)
        ELSE IF res = ""
        THEN question_loop(q)
        ELSE question_return(q, res)

\* One pass of the loop of Prompts.question on the answer res.
question_attempt(p, res) ==
    LET q == [p EXCEPT !.attempt = p.attempt + 1, !.entered = Append(p.entered, res)]
    IN  IF res # "" /\ q.validate # NoValidate /\ ~validate(q.validate, res)
        THEN question_loop(q)
        ELSE IF res # "" /\ q.match_regex # NoValidRegex
        THEN IF ~regex_match(q.match_regex, res)
             THEN question_loop(q)
             ELSE question_return(q, res)
        ELSE IF res = "" /\ Truthy(q.default)
        THEN question_return(q, q.default)
        ELSE IF res = ""
        THEN question_loop(q)
        ELSE question_return(q, res)

PromptInit ==
    /\ external_id_match = FALSE
    /\ include_group_names = {}
    /\ acc_groups = {}
    /\ ws_groups = {AdminsGroup}
    /\ Init

PromptFrame ==
    UNCHANGED <<ws_groups, acc_groups, include_group_names, external_id_match, persisted,
                table, pc, phase, tasks, results, attempts, answers, raised, stage,
                workspace_group_regex, workspace_group_replace, account_group_regex,
                generated, evaluated>>

\* Prompts.question is called: up to the first test of the loop.
question ==
    /\ prompt.outcome # "asking"
    /\ \E fn \in Validators, default \in Defaults, valid_number \in BOOLEAN,
          valid_regex \in {NoValidRegex, YesNoRegex},
          max_attempts \in 0..MaxPromptAttempts :
          prompt' = question_loop(
                        [validate |-> fn, default |-> default,
                         match_regex |-> IF valid_number THEN NumberRegex ELSE valid_regex,
                         max_attempts |-> max_attempts, attempt |-> 0,
                         entered |-> <<>>, outcome |-> "asking", result |-> ""])
    /\ PromptFrame

\* input(prompt) returns what the user typed, and the loop body runs on it.
input ==
    /\ prompt.outcome = "asking"
    /\ \E res \in Answers : prompt' = question_attempt(prompt, res)
    /\ PromptFrame

PromptNext ==
    \/ question
    \/ input

PromptSpec == PromptInit /\ [][PromptNext]_vars

----------------------------------------------------------------------------
(* Claims.                                                                 *)

\* The groups a step removes from the workspace.
Removed == {g \in ws_groups : \A h \in ws_groups' : h.id # g.id}

RowsOf(id) == {k \in 1..Len(table) : table[k].id_in_workspace = id}

\* A group of that name is in the listing of the workspace for the resource
\* type: it is no system group and its meta, when it has one, is that type.
ListedAs(resource_type, name) ==
    \E g \in ws_groups :
        /\ g.display_name = name
        /\ g.display_name \notin SYSTEM_GROUPS
        /\ g.meta \in {NoMeta, resource_type}

C2_DeletesOnlyRenamed ==
    [][\A g \in Removed :
          /\ g.meta # "Group"
          /\ \E k \in RowsOf(g.id) : g.display_name = table[k].temporary_name]_vars

\* C2 failing input reached: the group with id_in_workspace is gone while it
\* never carried the temporary name (another group holds it).
C2_FailingInput ==
    /\ phase = "delete"
    /\ \E i \in 1..Len(tasks) :
          /\ answers[i] = "OK"
          /\ \E g \in ws_groups : g.id # tasks[i].group_id /\ g.display_name = tasks[i].name

\* A step that invokes the named phase.
Invokes(name) == pc = "idle" /\ pc' = "running" /\ phase' = name

\* C3: when rename_groups is invoked right after an invocation of
\* rename_groups that did not raise (all its jobs succeeded), the second
\* invocation schedules no job.
C3_RenameIdempotent ==
    [][(Invokes("rename") /\ phase = "rename" /\ ~raised) => tasks' = <<>>]_vars

\* C4: once rename, then reflect, then delete have each completed without
\* error, no invocation of any phase schedules a job.
C4_ReRunnable == (stage = 3 /\ pc = "running") => tasks = <<>>

\* The correspondence a job was scheduled for.
JobOf(mg, job) ==
    /\ job.group_id = mg.id_in_workspace
    /\ job.name = mg.temporary_name

\* The rows and the jobs of the invocation a step starts pair off one to one
\* through Match, for exactly the rows that satisfy Due.
Scheduled(op, Match(_, _), Due(_)) ==
    /\ \A k \in 1..Len(table') :
          Due(table'[k]) <=> \E i \in 1..Len(tasks') : Match(table'[k], tasks'[i])
    /\ \A i \in 1..Len(tasks') :
          /\ tasks'[i].op = op
          /\ \E k \in 1..Len(table') : Due(table'[k]) /\ Match(table'[k], tasks'[i])
    /\ Len(tasks') = Cardinality({k \in 1..Len(table') : Due(table'[k])})

WorkspaceOwned == {g \in ws_groups : g.meta # "Group"}

AccountGroupNamed(name) == {g \in acc_groups : g.display_name = name}

C8_AlreadyExistsIsSuccess ==
    \A i \in 1..Len(tasks) :
        (tasks[i].op = "reflect" /\ answers[i] = "BadRequest") =>
            /\ results[i] = "done"
            /\ i \notin errors
            /\ (pc = "idle" /\ \A j \in 1..Len(tasks) : j # i => results[j] = "done")
                  => ~raised

\* C8 witness: a reflect invocation has returned with a job answered
\* BadRequest.
C8_Witness ==
    /\ pc = "idle" /\ phase = "reflect"
    /\ \E i \in 1..Len(tasks) : answers[i] = "BadRequest"

Applied(job) ==
    CASE job.op = "rename" ->
           \E g \in ws_groups : g.id = job.group_id /\ g.display_name = job.name
      [] job.op = "reflect" ->
           \E g \in ws_groups : g.id = job.group_id /\ g.meta = "Group"
      [] job.op = "delete" ->
           \A g \in ws_groups : g.id # job.group_id

\* C10: a phase raises only once it has returned from the gather; by then
\* every job has been called and has finished, the phase has raised exactly
\* when some job failed, and every job whose call succeeded is still
\* applied.
C10_AllJobsAttempted ==
    /\ raised => pc = "idle"
    /\ (pc = "idle" /\ phase # "none") =>
          /\ \A i \in 1..Len(tasks) : answers[i] # "" /\ results[i] # "pending"
          /\ raised <=> \E i \in 1..Len(tasks) : results[i] # "done"
          /\ \A i \in 1..Len(tasks) : answers[i] = "OK" => Applied(tasks[i])

\* C10 witness: a phase has raised with one job failed and a sibling's
\* mutation applied.
C10_Witness ==
    /\ pc = "idle" /\ raised
    /\ \E i, j \in 1..Len(tasks) :
          /\ results[i] \notin {"done", "pending"}
          /\ answers[j] = "OK" /\ Applied(tasks[j])

\* The remote's answers a job turns into a success: the call went through,
\* the assignment already exists, the group to delete is already gone.
Absorbed(i) ==
    \/ answers[i] = "OK"
    \/ tasks[i].op = "reflect" /\ answers[i] = "BadRequest"
    \/ tasks[i].op = "delete" /\ answers[i] = "NotFound"

\* The correspondences a job may have been scheduled for.
RowsOfJob(i) ==
    {k \in 1..Len(table) :
        IF tasks[i].op = "reflect" THEN tasks[i].name = table[k].name_in_account
        ELSE JobOf(table[k], tasks[i])}

C12_NotFoundIsNoOp ==
    \A i \in 1..Len(tasks) :
        answers[i] = "NotFound" => (results[i] = "done" /\ i \notin errors)

\* C12 failing input reached: a rename phase has raised on a patch that was
\* answered NotFound.
C12_FailingInput ==
    /\ pc = "idle" /\ phase = "rename" /\ raised
    /\ \E i \in 1..Len(tasks) : answers[i] = "NotFound" /\ results[i] = "NotFound"

\* C13: a job is recorded as failed on a transient error only once the
\* retry budget is used up, and a job whose call went through on a later
\* attempt is a success.
C13_TransientRetried ==
    \A i \in 1..Len(tasks) :
        /\ (answers[i] = "InternalError" /\ results[i] \notin {"pending", "done"})
              => attempts[i] >= MaxAttempts
        /\ (answers[i] = "OK" /\ attempts[i] > 0) => results[i] = "done"

\* C13 failing input reached: a rename job has failed on the first transient
\* error of its patch.
C13_FailingInput ==
    \E i \in 1..Len(tasks) :
        /\ tasks[i].op = "rename"
        /\ answers[i] = "InternalError" /\ results[i] = "InternalError"
        /\ attempts[i] = 0

\* The workspace groups the latest run of a strategy was given, and those of
\* them the include list lets through.
Given == {generated.workspace_groups[k] : k \in 1..Len(generated.workspace_groups)}

Candidates ==
    {g \in Given : include_group_names = {} \/ g.display_name \in include_group_names}

Rows == {generated.rows[k] : k \in 1..Len(generated.rows)}

\* The display names of the account groups the account lists.
AccountNames == {g.display_name : g \in acc_groups} \ SYSTEM_GROUPS

\* C14: the rows of MatchingNamesStrategy are those of the candidate
\* workspace groups whose display name is the display name of an account
\* group, each with name_in_account equal to name_in_workspace; a candidate
\* with no account group of its name has no row, and the strategy raises
\* nothing.
C14_ExactNameMatch ==
    generated.strategy = "MatchingNamesStrategy" =>
        /\ generated.error = "None"
        /\ \A row \in Rows :
              /\ row.name_in_account = row.name_in_workspace
              /\ row.name_in_workspace \in AccountNames
              /\ \E g \in Candidates :
                    g.id = row.id_in_workspace /\ g.display_name = row.name_in_workspace
        /\ \A g \in Candidates :
              g.display_name \notin AccountNames =>
                  \A row \in Rows : row.id_in_workspace # g.id

\* C14 witness: MatchingNamesStrategy has matched one candidate and left out
\* another that has no account group of its name.
C14_Witness ==
    /\ generated.strategy = "MatchingNamesStrategy"
    /\ Rows # {}
    /\ \E g \in Candidates :
          /\ g.display_name \notin AccountNames
          /\ \A row \in Rows : row.id_in_workspace # g.id

\* C15: RegexSubStrategy raises (KeyError) exactly when the name the
\* substitution derives for some candidate is the display name of no
\* account group, and no row carries such a name: the group is not skipped,
\* the run fails.
C15_RegexSubLookupFails ==
    generated.strategy = "RegexSubStrategy" =>
        /\ generated.error = "KeyError" <=>
              \E g \in Candidates :
                  safe_sub(g.display_name, workspace_group_regex, workspace_group_replace)
                      \notin AccountNames
        /\ \A row \in Rows : row.name_in_account \in AccountNames
        /\ generated.error = "None" => Cardinality(Rows) = Cardinality(Candidates)

\* C15 witness: RegexSubStrategy has raised on a name its valid expression
\* rewrote.
C15_Witness ==
    /\ generated.strategy = "RegexSubStrategy"
    /\ generated.error = "KeyError"
    /\ workspace_group_regex.kind = "pattern"
    /\ \E g \in Candidates :
          /\ safe_sub(g.display_name, workspace_group_regex, workspace_group_replace)
                # g.display_name
          /\ \A row \in Rows : row.id_in_workspace # g.id

\* The expression matches somewhere in the name.
Matches(match_re, group_name) ==
    \E i \in 1..(Len(group_name) + 1) :
        /\ match_re.anchored => i = 1
        /\ i + Len(match_re.text) - 1 <= Len(group_name)
        /\ SubSeq(group_name, i, i + Len(match_re.text) - 1) = match_re.text

\* C16: _safe_match answers the name it was given when the expression is
\* invalid or matches nowhere in the name, and _safe_sub answers the name it
\* was given when the expression is invalid.
C16_RegexFallback ==
    /\ evaluated.fn = "_safe_match" =>
          ((evaluated.match_re.kind = "invalid"
              \/ ~Matches(evaluated.match_re, evaluated.group_name))
            => evaluated.result = evaluated.group_name)
    /\ evaluated.fn = "_safe_sub" =>
          (evaluated.match_re.kind = "invalid"
            => evaluated.result = evaluated.group_name)

\* C16 witness: _safe_match was called with a valid expression that matches
\* nowhere in the name.
C16_Witness ==
    /\ evaluated.fn = "_safe_match"
    /\ evaluated.match_re.kind = "pattern"
    /\ ~Matches(evaluated.match_re, evaluated.group_name)
    /\ evaluated.result = evaluated.group_name

\* Where a workspace group stands in the listing the strategy was given.
Position(g) ==
    CHOOSE k \in 1..Len(generated.workspace_groups) : generated.workspace_groups[k] = g

WorkspaceKey(name) == safe_match(name, workspace_group_regex)

AccountKey(name) == safe_match(name, account_group_regex)

\* C17: RegexMatchStrategy raises nothing and yields at most one row for a
\* key; the row of a key is that of the candidate that comes last in the
\* listing among the candidates of the key, paired with the account group
\* that comes last (they come sorted by display name) among the account
\* groups of the key.
C17_LastWriteWins ==
    generated.strategy = "RegexMatchStrategy" =>
        /\ generated.error = "None"
        /\ \A i, j \in 1..Len(generated.rows) :
              WorkspaceKey(generated.rows[i].name_in_workspace)
                  = WorkspaceKey(generated.rows[j].name_in_workspace) => i = j
        /\ \A row \in Rows :
              /\ AccountKey(row.name_in_account) = WorkspaceKey(row.name_in_workspace)
              /\ \A g \in Candidates :
                    WorkspaceKey(g.display_name) = WorkspaceKey(row.name_in_workspace) =>
                        \E h \in Candidates :
                            /\ h.id = row.id_in_workspace
                            /\ Position(g) <= Position(h)
              /\ \A n \in AccountNames :
                    AccountKey(n) = AccountKey(row.name_in_account) =>
                        NameRank(n) <= NameRank(row.name_in_account)
        /\ \A g \in Candidates :
              (\E n \in AccountNames : AccountKey(n) = WorkspaceKey(g.display_name)) =>
                  \E row \in Rows :
                      WorkspaceKey(row.name_in_workspace) = WorkspaceKey(g.display_name)

\* C17 witness: two candidates and two account groups derive one key, and
\* RegexMatchStrategy has yielded the one row of that key.
C17_Witness ==
    /\ generated.strategy = "RegexMatchStrategy"
    /\ Len(generated.rows) = 1
    /\ \E g, h \in Candidates :
          /\ g # h
          /\ WorkspaceKey(g.display_name) = WorkspaceKey(h.display_name)
          /\ WorkspaceKey(g.display_name) # g.display_name
    /\ \E n, m \in AccountNames : n # m /\ AccountKey(n) = AccountKey(m)

\* C18: in the rows a strategy yields, no two rows share id_in_workspace and
\* no two share name_in_workspace, so a MigrationState built from them holds
\* as many entries as there are rows.
C18_UniqueCorrespondences ==
    /\ \A i, j \in 1..Len(generated.rows) :
          (\/ generated.rows[i].id_in_workspace = generated.rows[j].id_in_workspace
           \/ generated.rows[i].name_in_workspace = generated.rows[j].name_in_workspace)
             => i = j
    /\ MigrationState_len(generated.rows) = Len(generated.rows)

\* C18 witness: RegexMatchStrategy has yielded two rows.
C18_Witness ==
    /\ generated.strategy = "RegexMatchStrategy"
    /\ Len(generated.rows) = Cardinality(WsIds)

\* C19: every row a strategy yields has temporary_name equal to the prefix
\* followed by its name_in_workspace.
C19_TemporaryName ==
    \A row \in Rows : row.temporary_name = renamed_group_prefix \o row.name_in_workspace

\* C19 witness: a strategy has yielded a row whose account group is named
\* otherwise than the workspace group.
C19_Witness ==
    \E row \in Rows :
        /\ row.name_in_account # row.name_in_workspace
        /\ Len(row.temporary_name) > Len(renamed_group_prefix)

\* A strategy has a match for the workspace group.
Matched(g) ==
    CASE generated.strategy = "MatchingNamesStrategy" -> g.display_name \in AccountNames
      [] generated.strategy = "MatchByExternalIdStrategy" ->
           \E h \in acc_groups : h.external_id = g.external_id
      [] generated.strategy = "RegexSubStrategy" -> generated.error = "None"
      [] generated.strategy = "RegexMatchStrategy" ->
           /\ \E n \in AccountNames : AccountKey(n) = WorkspaceKey(g.display_name)
           /\ \A h \in Given :
                 WorkspaceKey(h.display_name) = WorkspaceKey(g.display_name) =>
                     Position(h) <= Position(g)
      [] OTHER -> FALSE

\* C20: with no include list every workspace group of the listing is a
\* candidate, so each of them the strategy has a match for gets a row; with
\* an include list, every row is that of a workspace group the list names.
C20_IncludeFilter ==
    /\ include_group_names = {} =>
          \A g \in Given : Matched(g) => \E row \in Rows : row.id_in_workspace = g.id
    /\ include_group_names # {} =>
          \A row \in Rows : row.name_in_workspace \in include_group_names

\* C20 witness: with an include list, a strategy has yielded a row for a
\* named group and none for a group it has a match for but the list does
\* not name.
C20_Witness ==
    /\ include_group_names # {}
    /\ Rows # {}
    /\ generated.strategy = "MatchingNamesStrategy"
    /\ \E g \in Given :
          /\ g.display_name \notin include_group_names
          /\ Matched(g)
          /\ \A row \in Rows : row.id_in_workspace # g.id

\* The candidate a row was yielded for.
CandidateOf(row) == CHOOSE g \in Candidates : g.id = row.id_in_workspace

\* C21: MatchByExternalIdStrategy raises nothing and yields a row for a
\* candidate exactly when the candidate has an external id and some account
\* group has the same one; name_in_account is then the display name of an
\* account group with that external id.
C21_ExternalIdMatch ==
    generated.strategy = "MatchByExternalIdStrategy" =>
        /\ generated.error = "None"
        /\ \A g \in Candidates :
              (\E row \in Rows : row.id_in_workspace = g.id) <=>
                  /\ g.external_id # NoExternalId
                  /\ \E h \in acc_groups : h.external_id = g.external_id
        /\ \A row \in Rows :
              \E h \in acc_groups :
                  /\ h.display_name = row.name_in_account
                  /\ h.external_id = CandidateOf(row).external_id

\* C21 failing input reached: MatchByExternalIdStrategy has yielded a row for
\* a candidate that has no external id.
C21_FailingInput ==
    /\ generated.strategy = "MatchByExternalIdStrategy"
    /\ \E row \in Rows : CandidateOf(row).external_id = NoExternalId

\* C26: MatchByExternalIdStrategy yields no row for a workspace group that
\* has no external id.
C26_NoExternalIdNeverPaired ==
    generated.strategy = "MatchByExternalIdStrategy" =>
        \A g \in Given :
            g.external_id = NoExternalId => \A row \in Rows : row.id_in_workspace # g.id

\* C26 failing input reached: a workspace group with no external id is paired
\* with an account group of another name that has none either.
C26_FailingInput ==
    /\ generated.strategy = "MatchByExternalIdStrategy"
    /\ \E row \in Rows :
          /\ row.external_id = NoExternalId
          /\ row.name_in_account # row.name_in_workspace
          /\ \E g \in Given : g.id = row.id_in_workspace /\ g.external_id = NoExternalId

\* C22: once rows are persisted no step changes them, whatever it does to
\* the remote groups; a phase invoked while nothing is persisted crawls
\* (lists the groups and runs the strategy) and persists what the crawl
\* gave, and a phase invoked later reads those same rows.
C22_SnapshotCrawlsOnce ==
    [][/\ persisted => (persisted' /\ table' = table)
       /\ (pc = "idle" /\ pc' = "running") =>
             /\ persisted'
             /\ ~persisted =>
                   \E order \in ListingOrders(workspace_groups_in_workspace) :
                       table' = crawler(order).rows]_vars

\* C22 witness: a reflect phase runs on the rows persisted before the rename
\* phase, while a crawl of the remote as it is now would give other rows.
C22_Witness ==
    /\ pc = "running" /\ phase = "reflect" /\ stage >= 1
    /\ persisted /\ table # <<>>
    /\ \A order \in ListingOrders(workspace_groups_in_workspace) :
          crawler(order).rows # table

\* C24: the jobs of one invocation target pairwise distinct group ids.
C24_OneJobPerGroupId ==
    \A i, j \in 1..Len(tasks) : tasks[i].group_id = tasks[j].group_id => i = j

\* C24 failing input reached: a reflect invocation has scheduled two
\* assignments of one account group.
C24_FailingInput ==
    /\ pc = "running" /\ phase = "reflect"
    /\ \E i, j \in 1..Len(tasks) :
          /\ i # j
          /\ tasks[i].group_id = tasks[j].group_id
          /\ AtAccount(tasks[i].group_id)

\* C27: no group is in both listings of the workspace, and a system group is
\* in neither, in no row and the target of no job.
C27_ListingsDisjoint ==
    /\ list_workspace_groups("WorkspaceGroup") \cap list_workspace_groups("Group") = {}
    /\ \A g \in list_workspace_groups("WorkspaceGroup") \cup list_workspace_groups("Group") :
          g.display_name \notin SYSTEM_GROUPS
    /\ \A k \in 1..Len(table) : table[k].name_in_workspace \notin SYSTEM_GROUPS
    /\ \A i \in 1..Len(tasks) :
          \A g \in ws_groups :
              g.id = tasks[i].group_id => g.display_name \notin SYSTEM_GROUPS

\* C27 failing input reached: rename_groups has skipped the one row of the
\* snapshot as "already in workspace" on the strength of a workspace group
\* that both listings return, no account group being assigned.
C27_FailingInput ==
    /\ pc = "running" /\ phase = "rename"
    /\ Len(table) = 1 /\ tasks = <<>>
    /\ \A g \in ws_groups : g.meta # "Group"
    /\ \E g \in list_workspace_groups("WorkspaceGroup") \cap list_workspace_groups("Group") :
          g.display_name = table[1].name_in_account
    /\ ~ListedAs("WorkspaceGroup", table[1].temporary_name)

\* C25: when rename, reflect and delete have run once each in that order
\* with every job succeeding, then for every row whose account group exists
\* in the account, the account-scoped listing of the workspace has a group
\* named name_in_account, the workspace-scoped listing has none named
\* temporary_name, and the group id_in_workspace is gone.
C25_MigrationCompletes ==
    (pc = "idle" /\ phase = "delete") =>
        \A k \in 1..Len(table) :
            AccountGroupNamed(table[k].name_in_account) # {} =>
                /\ ListedAs("Group", table[k].name_in_account)
                /\ ~ListedAs("WorkspaceGroup", table[k].temporary_name)
                /\ ~Present(table[k].id_in_workspace)

\* C25 failing input reached: the three phases are over without an error,
\* every listed group has its meta, no workspace group holds the temporary
\* name, the account group of a row is listed in the workspace, and the
\* original workspace group of that row still exists.
C25_FailingInput ==
    /\ pc = "idle" /\ phase = "delete" /\ stage = 3
    /\ \A g \in ws_groups : g.meta # NoMeta
    /\ \E k \in 1..Len(table) :
          /\ AccountGroupNamed(table[k].name_in_account) # {}
          /\ ListedAs("Group", table[k].name_in_account)
          /\ ~ListedAs("WorkspaceGroup", table[k].temporary_name)
          /\ Present(table[k].id_in_workspace)

\* Whether the call p takes the typed answer res: a non-empty answer has to
\* pass validate and the valid_regex where they are given, an empty one is
\* taken when there is a default to return in its place.
Accepted(p, res) ==
    IF res = ""
    THEN Truthy(p.default)
    ELSE /\ p.validate # NoValidate => validate(p.validate, res)
         /\ p.match_regex # NoValidRegex => regex_match(p.match_regex, res)

\* C23: a call of Prompts.question with a validate function reads at most
\* max_attempts answers; when it returns after a non-empty answer, it returns
\* that answer and validate accepts it (an accepted regex compiles, an
\* accepted group string has no whitespace or forbidden character); and it
\* raises ValueError exactly when it has read max_attempts answers and
\* accepted none of them.
C23_ValidatedAnswers ==
    prompt.validate # NoValidate =>
        LET entered == prompt.entered
            n == Len(entered)
        IN  /\ n <= prompt.max_attempts
            /\ (prompt.outcome = "returned" /\ entered[n] # "") =>
                  /\ prompt.result = entered[n]
                  /\ validate(prompt.validate, prompt.result)
                  /\ prompt.validate = "_validate_regex" => re_compiles(prompt.result)
                  /\ prompt.validate = "_is_valid_group_str" =>
                        Chars(prompt.result) \cap ForbiddenChars = {}
            /\ prompt.outcome = "raised" <=>
                  /\ n = prompt.max_attempts
                  /\ \A i \in 1..n : ~Accepted(prompt, entered[i])

\* C23 witness: asked for a regex, the user types an expression that does not
\* compile and then one that does, and the second is returned.
C23_Witness ==
    /\ prompt.validate = "_validate_regex"
    /\ prompt.entered = <<"(", "^">>
    /\ prompt.outcome = "returned"
    /\ prompt.result = "^"

====
